---------------------------- MODULE Spec2Model ----------------------------
(***************************************************************************)
(* White Circle case-study API (src/main.py, src/schemas.py).              *)
(*                                                                         *)
(* The HTTP handlers of main.py over one "casestudy" collection of a       *)
(* document store.  The store adapter (module database: db,                *)
(* create_document, get_documents) is imported by main.py but its source   *)
(* is not part of src/; it is modelled from the specification's            *)
(* "Document Store Adapter": insert(collection, document) -> id and        *)
(* find(collection, filter, limit) -> sequence of documents.               *)
(*                                                                         *)
(* Representation                                                          *)
(*   - a str that a regular expression is run against (brand, headline,    *)
(*     highlight, a tag, the q parameter) is a sequence of one-character   *)
(*     strings; every other str is a TLA+ string;                          *)
(*   - Optional[T]: None is {} and a value v is {v};                       *)
(*   - a list is a sequence; a dict is a function on its keys;             *)
(*   - a float is its value in tenths (92.5 is 925).                       *)
(***************************************************************************)
EXTENDS Naturals, Integers, Sequences, FiniteSets

VARIABLES
    coll,          \* the "casestudy" collection: stored documents, in insertion order
    nextId,        \* the next identifier the store assigns
    created,       \* the create requests served: the identifier returned and the payload
    seedPc,        \* per seed request: "idle", "inserting" or "done"
    seedInserted,  \* per seed request: the local counter  inserted  (main.py:186)
    seedResp,      \* per seed request: the response returned, None while in flight
    seedLog,       \* the seed responses, in the order they were returned
    resp           \* the response a handler other than seed has produced, with its
                   \* request, until the HTTP surface has sent it: a JSON array is
                   \* its  body,  a JSON object its  object

vars == <<coll, nextId, created, seedPc, seedInserted, seedResp, seedLog, resp>>

---------------------------------------------------------------------------
(* Bounds of the model *)

\* the write requests (seed, create) of a run
MaxWrites == 2

\* seed requests, numbered in their order of arrival
SeedReqs == 1..MaxWrites

---------------------------------------------------------------------------
(* Python values *)

None == {}
Some(v) == {v}
Val(o) == CHOOSE v \in o : TRUE

\* bool(s) of an Optional[str] held as a TLA+ string: None and "" are falsy
TruthyStr(o) == o # None /\ Val(o) # ""
\* bool(s) of an Optional[str] held as a character sequence
TruthyText(o) == o # None /\ Val(o) # <<>>

Min(a, b) == IF a <= b THEN a ELSE b

\* s[:n]
Take(s, n) == SubSeq(s, 1, Min(n, Len(s)))

IsPrefix(s, t) == Len(s) <= Len(t) /\ SubSeq(t, 1, Len(s)) = s

\* the elements of s at the indexes in keep, from index i on, in order
RECURSIVE SelectIdx(_, _, _)
SelectIdx(s, keep, i) ==
    IF i > Len(s) THEN <<>>
    ELSE (IF i \in keep THEN <<s[i]>> ELSE <<>>) \o SelectIdx(s, keep, i + 1)

UpperCase == <<"A","B","C","D","E","F","G","H","I","J","K","L","M",
               "N","O","P","Q","R","S","T","U","V","W","X","Y","Z">>
LowerCase == <<"a","b","c","d","e","f","g","h","i","j","k","l","m",
               "n","o","p","q","r","s","t","u","v","w","x","y","z">>

\* case folding of one character
Lower(c) ==
    IF \E i \in 1..26 : UpperCase[i] = c
    THEN LowerCase[CHOOSE i \in 1..26 : UpperCase[i] = c]
    ELSE c

\* str(n) of a store identifier: its decimal digits
DigitChars == <<"0","1","2","3","4","5","6","7","8","9">>
RECURSIVE StrOfId(_)
StrOfId(n) ==
    IF n < 10 THEN <<DigitChars[n + 1]>>
    ELSE StrOfId(n \div 10) \o <<DigitChars[(n % 10) + 1]>>

---------------------------------------------------------------------------
(* Regular expressions, as the store evaluates {"$regex": q, "$options": o}:  *)
(* an unanchored search, case-insensitive when the options hold "i".  The     *)
(* fragment modelled is a sequence of atoms, "." matching any character and   *)
(* every other character matching itself.                                     *)

AtomMatches(p, c, options) ==
    \/ p = "."
    \/ IF options = "i" THEN Lower(p) = Lower(c) ELSE p = c

RegexSearch(pat, text, options) ==
    \E start \in 1..(Len(text) + 1) :
        /\ start + Len(pat) - 1 <= Len(text)
        /\ \A k \in 1..Len(pat) : AtomMatches(pat[k], text[start + k - 1], options)

\* z is a case-insensitive substring of text
IsSubstrI(z, text) ==
    \E start \in 1..(Len(text) + 1) :
        /\ start + Len(z) - 1 <= Len(text)
        /\ \A k \in 1..Len(z) : Lower(z[k]) = Lower(text[start + k - 1])

---------------------------------------------------------------------------
(* schemas.py *)

Metric(label, value) == [label |-> label, value |-> value]

CaseStudyFields ==
    {"brand", "logo_url", "industry", "scope", "campaign_type", "headline",
     "highlight", "metrics", "tags", "video_url", "featured", "performance_score"}

CaseStudyRequired == {"brand", "industry", "campaign_type", "headline", "highlight"}

\* the declared default of each optional field of CaseStudy
CaseStudyDefault(k) ==
    CASE k \in {"logo_url", "video_url", "performance_score"} -> None
      [] k \in {"scope", "metrics", "tags"} -> <<>>
      [] k = "featured" -> FALSE

\* CaseStudy(**given): every declared field, the ones not given at their default
CaseStudy(given) ==
    [k \in CaseStudyFields |-> IF k \in DOMAIN given THEN given[k] ELSE CaseStudyDefault(k)]

---------------------------------------------------------------------------
(* Document Store Adapter (database.py, not in src/) *)

\* insert(collection, document) -> id: the document is stored under a fresh
\* store-assigned identifier, after the documents already there
create_document(c, id, data) ==
    c \o <<[k \in DOMAIN data \cup {"_id"} |-> IF k = "_id" THEN id ELSE data[k]]>>

\* one condition of a filter on one document, as the store evaluates it
ClauseHolds(doc, key, cond) ==
    CASE key \in {"industry", "campaign_type", "featured"} ->
            key \in DOMAIN doc /\ doc[key] = cond
      [] key = "scope" ->
            /\ "scope" \in DOMAIN doc
            /\ \E i \in 1..Len(doc.scope) : \E j \in 1..Len(cond.in) :
                   doc.scope[i] = cond.in[j]
      [] key = "$or" ->
            \E n \in 1..Len(cond) :
                LET f == cond[n].field
                    re == cond[n].regex
                    o == cond[n].options
                IN  /\ f \in DOMAIN doc
                    /\ IF f = "tags"
                       THEN \E i \in 1..Len(doc.tags) : RegexSearch(re, doc.tags[i], o)
                       ELSE RegexSearch(re, doc[f], o)

\* a filter is a dict of conditions, all of which must hold
Matches(doc, filter) ==
    \A key \in DOMAIN filter : ClauseHolds(doc, key, filter[key])

\* find(collection, filter, limit): the first  limit  matching documents
get_documents(c, filter, limit) ==
    Take(SelectIdx(c, {i \in 1..Len(c) : Matches(c[i], filter)}, 1), limit)

EmptyFilter == <<>>

---------------------------------------------------------------------------
(* main.py: the response shaper *)

\* _serialize(doc): a copy of doc with "_id" replaced by "id", its str()
_serialize(doc) ==
    IF "_id" \in DOMAIN doc
    THEN [k \in (DOMAIN doc \ {"_id"}) \cup {"id"} |->
              IF k = "id" THEN StrOfId(doc["_id"]) ELSE doc[k]]
    ELSE doc

\* class CaseStudyOut: its fields
CaseStudyOutFields ==
    {"id", "brand", "logo_url", "industry", "scope", "campaign_type", "headline",
     "highlight", "metrics", "tags", "featured", "performance_score"}

CaseStudyOutRequired == {"id", "brand", "industry", "campaign_type", "headline", "highlight"}

CaseStudyOutDefault(k) ==
    CASE k \in {"logo_url", "performance_score"} -> None
      [] k \in {"scope", "metrics", "tags"} -> <<>>
      [] k = "featured" -> FALSE

\* CaseStudyOut(**d) validates: every required field is given
CaseStudyOutValid(d) == CaseStudyOutRequired \subseteq DOMAIN d

\* CaseStudyOut(**d): the declared fields only, the ones not given at their default
CaseStudyOut(d) ==
    [k \in CaseStudyOutFields |-> IF k \in DOMAIN d THEN d[k] ELSE CaseStudyOutDefault(k)]

\* [CaseStudyOut(**_serialize(d)) for d in docs], as a response
ShapeDocs(docs) ==
    IF \A i \in 1..Len(docs) : CaseStudyOutValid(_serialize(docs[i]))
    THEN [status |-> 200, body |-> [i \in 1..Len(docs) |-> CaseStudyOut(_serialize(docs[i]))]]
    ELSE [status |-> 500, body |-> <<>>]

---------------------------------------------------------------------------
(* main.py: the list and featured endpoints *)

DefaultListLimit == 24
MaxListLimit == 100
DefaultFeaturedLimit == 6
MaxFeaturedLimit == 12

\* limit: int = Query(24, ge=1, le=100)
ListLimit(limit) == IF limit = None THEN DefaultListLimit ELSE Val(limit)
\* the bug of a bound left out: Query(24, ge=1)
ListLimitValid_NoUpperBound(limit) == ListLimit(limit) >= 1
ListLimitValid(limit) == ListLimit(limit) >= 1 /\ ListLimit(limit) <= MaxListLimit

\* limit: int = Query(6, ge=1, le=12)
FeaturedLimit(limit) == IF limit = None THEN DefaultFeaturedLimit ELSE Val(limit)
FeaturedLimitValid(limit) == FeaturedLimit(limit) >= 1 /\ FeaturedLimit(limit) <= MaxFeaturedLimit

\* the four clauses of filters["$or"]
QClauses(q) ==
    [n \in 1..4 |->
        [field |-> <<"brand", "headline", "highlight", "tags">>[n],
         regex |-> q, options |-> "i"]]

\* the keys the Filter Builder sets
FilterKeys(q, industry, scope, campaign_type) ==
    (IF TruthyStr(industry) THEN {"industry"} ELSE {}) \cup
    (IF TruthyStr(campaign_type) THEN {"campaign_type"} ELSE {}) \cup
    (IF TruthyStr(scope) THEN {"scope"} ELSE {}) \cup
    (IF TruthyText(q) THEN {"$or"} ELSE {})

\* the bug of a later condition replacing the filter instead of adding to it
BuildFilters_ScopeReplaces(q, industry, scope, campaign_type) ==
    IF TruthyStr(scope)
    THEN [key \in {"scope"} |-> [in |-> <<Val(scope)>>]]
    ELSE [key \in FilterKeys(q, industry, None, campaign_type) |->
             CASE key = "industry" -> Val(industry)
               [] key = "campaign_type" -> Val(campaign_type)
               [] key = "$or" -> QClauses(Val(q))]

\* the bug of the industry condition being left out
BuildFilters_NoIndustry(q, industry, scope, campaign_type) ==
    [key \in FilterKeys(q, None, scope, campaign_type) |->
        CASE key = "campaign_type" -> Val(campaign_type)
          [] key = "scope" -> [in |-> <<Val(scope)>>]
          [] key = "$or" -> QClauses(Val(q))]

\* filters, as list_case_studies builds it
BuildFilters(q, industry, scope, campaign_type) ==
    [key \in FilterKeys(q, industry, scope, campaign_type) |->
        CASE key = "industry" -> Val(industry)
          [] key = "campaign_type" -> Val(campaign_type)
          [] key = "scope" -> [in |-> <<Val(scope)>>]
          [] key = "$or" -> QClauses(Val(q))]

\* GET /api/case-studies: 422 before the handler runs when limit is out of range
list_case_studies(c, q, industry, scope, campaign_type, limit) ==
    IF ~ListLimitValid(limit)
    THEN [status |-> 422, body |-> <<>>, queried |-> FALSE]
    ELSE LET filters == BuildFilters(q, industry, scope, campaign_type)
             docs == get_documents(c, filters, ListLimit(limit))
             out == ShapeDocs(docs)
         IN  [status |-> out.status, body |-> out.body, queried |-> TRUE]

FeaturedFilter == [featured |-> TRUE]

\* GET /api/case-studies/featured
featured_case_studies(c, limit) ==
    IF ~FeaturedLimitValid(limit)
    THEN [status |-> 422, body |-> <<>>, queried |-> FALSE]
    ELSE LET docs == get_documents(c, FeaturedFilter, FeaturedLimit(limit))
             out == ShapeDocs(docs)
         IN  [status |-> out.status, body |-> out.body, queried |-> TRUE]

---------------------------------------------------------------------------
(* main.py: POST /api/case-studies *)

\* the bug of an insert that replaces the stored documents of the same brand
create_case_study_replacing(c, id, payload) ==
    [coll |-> create_document(
                  SelectIdx(c, {i \in 1..Len(c) : c[i].brand # payload.brand}, 1),
                  id, payload),
     body |-> [id |-> id]]

\* create_case_study(payload): the collection after the insert, and the response
create_case_study(c, id, payload) ==
    [coll |-> create_document(c, id, payload), body |-> [id |-> id]]

---------------------------------------------------------------------------
(* main.py: POST /api/seed *)

\* brand "Aurora Beauty"; headline "From launch to leadership in 3 months";
\* highlight "4.3x ROAS and 1M+ engagements"; tags ['beauty', 'makeup', 'ecommerce']
SampleAurora ==
    CaseStudy(
        [brand |-> <<"A","u","r","o","r","a"," ","B","e","a","u","t","y">>,
         logo_url |-> Some("https://dummyimage.com/80x80/eeeeee/000000&text=A"),
         industry |-> "Beauty",
         scope |-> <<"Performance", "UGC", "Influencer">>,
         campaign_type |-> "Integrated",
         headline |-> <<"F","r","o","m"," ","l","a","u","n","c","h"," ","t","o"," ","l","e",
                      "a","d","e","r","s","h","i","p"," ","i","n"," ","3"," ","m","o","n",
                      "t","h","s">>,
         highlight |-> <<"4",".","3","x"," ","R","O","A","S"," ","a","n","d"," ","1","M","+",
                       " ","e","n","g","a","g","e","m","e","n","t","s">>,
         metrics |-> <<Metric("ROAS", "4.3x"), Metric("Engagements", "1M+"), Metric("Reach", "2.1M")>>,
         tags |-> << <<"b","e","a","u","t","y">>,
                   <<"m","a","k","e","u","p">>,
                   <<"e","c","o","m","m","e","r","c","e">> >>,
         featured |-> TRUE,
         performance_score |-> Some(925)])

\* brand "Volt Wear"; headline "Community-first brand building";
\* highlight "3x engagement via full-funnel social"; tags ['fashion', 'social']
SampleVolt ==
    CaseStudy(
        [brand |-> <<"V","o","l","t"," ","W","e","a","r">>,
         logo_url |-> Some("https://dummyimage.com/80x80/eeeeee/000000&text=V"),
         industry |-> "Fashion",
         scope |-> <<"Branding", "Socials">>,
         campaign_type |-> "Organic",
         headline |-> <<"C","o","m","m","u","n","i","t","y","-","f","i","r","s","t"," ","b",
                      "r","a","n","d"," ","b","u","i","l","d","i","n","g">>,
         highlight |-> <<"3","x"," ","e","n","g","a","g","e","m","e","n","t"," ","v","i","a",
                       " ","f","u","l","l","-","f","u","n","n","e","l"," ","s","o","c","i",
                       "a","l">>,
         metrics |-> <<Metric("Engagement", "3x"), Metric("Followers", "+120k")>>,
         tags |-> << <<"f","a","s","h","i","o","n">>,
                   <<"s","o","c","i","a","l">> >>,
         featured |-> TRUE,
         performance_score |-> Some(880)])

\* brand "Nova Foods"; headline "Retail lift with creator-led ads";
\* highlight "2.7x incremental sales in pilot markets"; tags ['fmcg', 'retail']
SampleNova ==
    CaseStudy(
        [brand |-> <<"N","o","v","a"," ","F","o","o","d","s">>,
         logo_url |-> Some("https://dummyimage.com/80x80/eeeeee/000000&text=N"),
         industry |-> "FMCG",
         scope |-> <<"Performance", "Influencer">>,
         campaign_type |-> "Paid",
         headline |-> <<"R","e","t","a","i","l"," ","l","i","f","t"," ","w","i","t","h"," ",
                      "c","r","e","a","t","o","r","-","l","e","d"," ","a","d","s">>,
         highlight |-> <<"2",".","7","x"," ","i","n","c","r","e","m","e","n","t","a","l"," ",
                       "s","a","l","e","s"," ","i","n"," ","p","i","l","o","t"," ","m","a",
                       "r","k","e","t","s">>,
         metrics |-> <<Metric("ROAS", "3.1x"), Metric("Reach", "1.8M")>>,
         tags |-> << <<"f","m","c","g">>,
                   <<"r","e","t","a","i","l">> >>,
         featured |-> FALSE,
         performance_score |-> Some(810)])

\* samples (main.py:134)
Samples == <<SampleAurora, SampleVolt, SampleNova>>

\* the bug of an existence check that asks for no document: limit=0
seed_existing_limit0(c) == get_documents(c, EmptyFilter, 0)

\* existing = get_documents("casestudy", {}, limit=1)
seed_existing(c) == get_documents(c, EmptyFilter, 1)

SeedExists == [status |-> "exists", inserted |-> 0]
SeedSeeded(n) == [status |-> "seeded", inserted |-> n]

---------------------------------------------------------------------------
(* main.py: GET /test.  The report's marks are written in ASCII:           *)
(* "[ok]" for the check mark, "[x]" for the cross, "[!]" for the warning.  *)
(* The "database" entry is a text and the error detail appended to it.     *)

ErrorDetailLen == 50
CollectionsShown == 10

DbText(text) == [text |-> text, detail |-> <<>>]
DbError(text, e) == [text |-> text, detail |-> Take(e, ErrorDetailLen)]

\* os.getenv(name) is truthy
EnvSet(v) == v # None /\ Val(v) # ""

\* response, as first built
TestInitial ==
    [backend |-> "[ok] Running",
     database |-> DbText("[x] Not Available"),
     database_url |-> None,
     database_name |-> None,
     connection_status |-> "Not Connected",
     collections |-> <<>>]

\* the try block: db is None, or a handle whose list_collection_names() returns or raises
TestTry(db) ==
    IF db # None
    THEN LET h == Val(db)
             r == [TestInitial EXCEPT
                      !.database = DbText("[ok] Available"),
                      !.database_url = Some("[ok] Configured"),
                      !.database_name = IF h.name # None THEN h.name ELSE Some("[ok] Connected"),
                      !.connection_status = "Connected"]
         IN  IF h.list.raises
             THEN [r EXCEPT !.database = DbError("[!] Connected but Error: ", h.list.error)]
             ELSE [r EXCEPT !.collections = Take(h.list.names, CollectionsShown),
                            !.database = DbText("[ok] Connected & Working")]
    ELSE [TestInitial EXCEPT !.database = DbText("[!] Available but not initialized")]

\* the bug of the environment checks placed inside the try block, after the
\* call that may raise
test_database_env_in_try(db, url, name) ==
    IF db # None /\ Val(db).list.raises
    THEN TestTry(db)
    ELSE [TestTry(db) EXCEPT
             !.database_url = IF EnvSet(url) THEN Some("[ok] Set") ELSE Some("[x] Not Set"),
             !.database_name = IF EnvSet(name) THEN Some("[ok] Set") ELSE Some("[x] Not Set")]

\* test_database(): the try block, then the two environment values
test_database(db, url, name) ==
    [TestTry(db) EXCEPT
        !.database_url = IF EnvSet(url) THEN Some("[ok] Set") ELSE Some("[x] Not Set"),
        !.database_name = IF EnvSet(name) THEN Some("[ok] Set") ELSE Some("[x] Not Set")]

---------------------------------------------------------------------------
(* Inputs of the model *)

\* valid create payloads
PayloadPlain ==
    CaseStudy(
        [brand |-> <<"B","e","a","u">>,
         industry |-> "Beauty",
         campaign_type |-> "Paid",
         headline |-> <<"H","i">>,
         highlight |-> <<"o","k">>,
         featured |-> TRUE])

PayloadFull ==
    CaseStudy(
        [brand |-> <<"N","o","x">>,
         logo_url |-> Some("https://nox.example/logo.png"),
         industry |-> "Beauty",
         scope |-> <<"Performance">>,
         campaign_type |-> "Organic",
         headline |-> <<"U","p">>,
         highlight |-> <<"2","x">>,
         metrics |-> <<Metric("ROAS", "2x")>>,
         tags |-> << <<"b","e","a","u","t","y">> >>,
         video_url |-> Some("https://nox.example/bg.mp4"),
         performance_score |-> Some(700)])

Payloads == {PayloadPlain, PayloadFull}

\* a document written to the store by another client, holding the required fields only
LegacyFields ==
    [brand |-> <<"O","l","d">>,
     industry |-> "beauty",
     campaign_type |-> "Paid",
     headline |-> <<"H","i">>,
     highlight |-> <<"o","k">>]

\* n more documents  data  inserted into c
RECURSIVE InsertMany(_, _, _)
InsertMany(c, data, n) ==
    IF n = 0 THEN c ELSE InsertMany(create_document(c, Len(c) + 1, data), data, n - 1)

\* the states of the collection a run starts from: empty, one legacy document,
\* and as many documents as the list endpoint's default limit
PriorEmpty == <<>>
PriorLegacy == InsertMany(<<>>, LegacyFields, 1)
PriorFull == InsertMany(<<>>, PayloadPlain, DefaultListLimit)
PriorStates == {PriorEmpty, PriorLegacy, PriorFull}

\* query parameters of the list endpoint
QTerms == {None, Some(<<>>), Some(<<"B","E","A","U">>), Some(<<"b",".","a">>)}
Industries == {None, Some(""), Some("Beauty")}
Scopes == {None, Some("Performance")}
CampaignTypes == {None, Some("Paid")}
ListLimits == {None, Some(0), Some(1), Some(MaxListLimit), Some(MaxListLimit + 1)}

\* requests of the list endpoint: every combination of the four filter parameters
\* at the default limit, and every limit without a filter
ListRequests ==
    {[q |-> q, industry |-> i, scope |-> s, campaign_type |-> t, limit |-> None] :
        q \in QTerms, i \in Industries, s \in Scopes, t \in CampaignTypes}
    \cup
    {[q |-> None, industry |-> None, scope |-> None, campaign_type |-> None, limit |-> l] :
        l \in ListLimits}
FeaturedLimits == {None, Some(0), Some(1), Some(MaxFeaturedLimit), Some(MaxFeaturedLimit + 1)}

\* the outcomes of db.list_collection_names()
ManyNames == [i \in 1..(CollectionsShown + 1) |-> "c"]
LongError == [i \in 1..(ErrorDetailLen + 1) |-> "e"]
ListOutcomes ==
    {[raises |-> FALSE, names |-> <<"casestudy">>, error |-> <<>>],
     [raises |-> FALSE, names |-> ManyNames, error |-> <<>>],
     [raises |-> TRUE, names |-> <<>>, error |-> <<"d","o","w","n">>],
     [raises |-> TRUE, names |-> <<>>, error |-> LongError]}

\* the module-level db: None, or a handle
DbHandles ==
    {None} \cup {Some([name |-> Some("appdb"), list |-> l]) : l \in ListOutcomes}

\* what os.getenv returns: unset, empty, a value
EnvValues == {None, Some(""), Some("set")}

---------------------------------------------------------------------------
(* The state machine *)

NoResponse ==
    [op |-> "none", req |-> <<>>, status |-> 0, body |-> <<>>, object |-> <<>>,
     queried |-> FALSE]

Init ==
    /\ coll \in PriorStates
    /\ nextId = Len(coll) + 1
    /\ created = <<>>
    /\ seedPc = [p \in SeedReqs |-> "idle"]
    /\ seedInserted = [p \in SeedReqs |-> 0]
    /\ seedResp = [p \in SeedReqs |-> None]
    /\ seedLog = <<>>
    /\ resp = NoResponse

seedVars == <<seedPc, seedInserted, seedResp, seedLog>>

\* no response is waiting to be sent
Idle == resp = NoResponse

\* write requests that have arrived
Writes == Len(created) + Cardinality({p \in SeedReqs : seedPc[p] # "idle"})

\* GET /
ReadRoot ==
    /\ Idle
    /\ resp' = [op |-> "root", req |-> <<>>, status |-> 200, body |-> <<>>,
                object |-> [message |-> "White Circle Backend Running", status |-> "ok"],
                queried |-> FALSE]
    /\ UNCHANGED <<coll, nextId, created, seedVars>>

\* GET /api/hello
Hello ==
    /\ Idle
    /\ resp' = [op |-> "hello", req |-> <<>>, status |-> 200, body |-> <<>>,
                object |-> [message |-> "Hello from the backend API!"],
                queried |-> FALSE]
    /\ UNCHANGED <<coll, nextId, created, seedVars>>

\* GET /test
TestDatabase ==
    /\ Idle
    /\ \E db \in DbHandles, url \in EnvValues, name \in EnvValues :
           resp' = [op |-> "test", req |-> [db |-> db, url |-> url, name |-> name],
                    status |-> 200, body |-> <<>>,
                    object |-> test_database(db, url, name), queried |-> FALSE]
    /\ UNCHANGED <<coll, nextId, created, seedVars>>

\* GET /api/case-studies
ListCaseStudies ==
    /\ Idle
    /\ \E r \in ListRequests :
           LET out == list_case_studies(coll, r.q, r.industry, r.scope,
                                        r.campaign_type, r.limit)
           IN  resp' = [op |-> "list", req |-> r, status |-> out.status,
                        body |-> out.body, object |-> <<>>, queried |-> out.queried]
    /\ UNCHANGED <<coll, nextId, created, seedVars>>

\* GET /api/case-studies/featured
FeaturedCaseStudies ==
    /\ Idle
    /\ \E limit \in FeaturedLimits :
           LET out == featured_case_studies(coll, limit)
           IN  resp' = [op |-> "featured", req |-> [limit |-> limit],
                        status |-> out.status, body |-> out.body, object |-> <<>>,
                        queried |-> out.queried]
    /\ UNCHANGED <<coll, nextId, created, seedVars>>

\* POST /api/case-studies
CreateCaseStudy ==
    /\ Idle
    /\ Writes < MaxWrites
    /\ \E payload \in Payloads :
           LET out == create_case_study(coll, nextId, payload)
           IN  /\ coll' = out.coll
               /\ created' = Append(created, [id |-> out.body.id, payload |-> payload])
               /\ resp' = [op |-> "create", req |-> payload, status |-> 200,
                            body |-> <<>>, object |-> out.body, queried |-> FALSE]
    /\ nextId' = nextId + 1
    /\ UNCHANGED seedVars

\* the HTTP surface sends the response
SendResponse ==
    /\ ~Idle
    /\ resp' = NoResponse
    /\ UNCHANGED <<coll, nextId, created, seedVars>>

\* POST /api/seed, up to the existence check (main.py:130-132)
SeedCheck(p) ==
    /\ Idle
    /\ Writes < MaxWrites
    /\ seedPc[p] = "idle"
    /\ \A r \in SeedReqs : r < p => seedPc[r] # "idle"
    /\ IF seed_existing(coll) # <<>>
       THEN /\ seedPc' = [seedPc EXCEPT ![p] = "done"]
            /\ seedResp' = [seedResp EXCEPT ![p] = Some(SeedExists)]
            /\ seedLog' = Append(seedLog, SeedExists)
       ELSE /\ seedPc' = [seedPc EXCEPT ![p] = "inserting"]
            /\ UNCHANGED <<seedResp, seedLog>>
    /\ UNCHANGED <<coll, nextId, created, seedInserted, resp>>

\* POST /api/seed, one turn of the loop (main.py:187-189), and the return after the last
SeedInsert(p) ==
    /\ Idle
    /\ seedPc[p] = "inserting"
    /\ LET n == seedInserted[p] + 1
       IN  /\ coll' = create_document(coll, nextId, Samples[n])
           /\ nextId' = nextId + 1
           /\ seedInserted' = [seedInserted EXCEPT ![p] = n]
           /\ IF n = Len(Samples)
              THEN /\ seedPc' = [seedPc EXCEPT ![p] = "done"]
                   /\ seedResp' = [seedResp EXCEPT ![p] = Some(SeedSeeded(n))]
                   /\ seedLog' = Append(seedLog, SeedSeeded(n))
              ELSE UNCHANGED <<seedPc, seedResp, seedLog>>
    /\ UNCHANGED <<created, resp>>

Next ==
    \/ ReadRoot
    \/ Hello
    \/ TestDatabase
    \/ ListCaseStudies
    \/ FeaturedCaseStudies
    \/ CreateCaseStudy
    \/ SendResponse
    \/ \E p \in SeedReqs : SeedCheck(p)
    \/ \E p \in SeedReqs : SeedInsert(p)

Spec == Init /\ [][Next]_vars

\* seed requests one after the other: a seed request arrives when none is in flight
NoSeedInFlight == \A p \in SeedReqs : seedPc[p] # "inserting"

SeqSeedCheck(p) == NoSeedInFlight /\ SeedCheck(p)

NextSeq ==
    \/ ReadRoot
    \/ Hello
    \/ TestDatabase
    \/ ListCaseStudies
    \/ FeaturedCaseStudies
    \/ CreateCaseStudy
    \/ SendResponse
    \/ \E p \in SeedReqs : SeqSeedCheck(p)
    \/ \E p \in SeedReqs : SeedInsert(p)

SpecSeq == Init /\ [][NextSeq]_vars

---------------------------------------------------------------------------
(* Properties *)

ReadOps == {"root", "hello", "test", "list", "featured"}

\* the identifiers of the records of a response body
Ids(body) == {body[j].id : j \in 1..Len(body)}

\* the stored document's identifier, as responses carry it
IdOf(doc) == StrOfId(doc["_id"])

\* a field of an output record, null when the record does not carry it
FieldOrNull(rec, k) == IF k \in DOMAIN rec THEN rec[k] ELSE None

\* the stored document without its identifier
FieldsOf(doc) == [k \in DOMAIN doc \ {"_id"} |-> doc[k]]

\* the filter parameters a list request supplies
Supplied(r) ==
    (IF r.q # None THEN {"q"} ELSE {}) \cup
    (IF r.industry # None THEN {"industry"} ELSE {}) \cup
    (IF r.scope # None THEN {"scope"} ELSE {}) \cup
    (IF r.campaign_type # None THEN {"campaign_type"} ELSE {})

\* resp answers a list request, at the default limit, with these filter
\* parameters supplied and no other
ListWith(supplied) ==
    /\ resp.op = "list"
    /\ resp.status = 200
    /\ resp.req.limit = None
    /\ Supplied(resp.req) = supplied

\* the body of the list response to these parameters, on the current collection
ListBody(q, industry, scope, campaign_type, limit) ==
    list_case_studies(coll, q, industry, scope, campaign_type, limit).body

(* C1: with seed requests served one after the other, from any state of the
   collection, only the first seed request can insert: every later one
   reports status "exists" with inserted 0 and inserts nothing. *)
C1_LaterSeedsAreNoOps ==
    /\ \A i \in 2..Len(seedLog) : seedLog[i] = SeedExists
    /\ \A p \in SeedReqs : p > 1 => seedPc[p] # "inserting" /\ seedInserted[p] = 0
    /\ \A p \in SeedReqs : seedResp[p] = Some(SeedExists) => seedInserted[p] = 0

C1_Witness ==
    /\ Len(seedLog) >= 2
    /\ seedLog[1] = SeedSeeded(Len(Samples))
    /\ seedLog[2] = SeedExists

(* C2: across every interleaving of concurrent seed requests the sample set
   is inserted at most once: the collection never holds more than one copy
   of a sample record, and at most one request reports "seeded". *)
C2_SeededAtMostOnce ==
    /\ Cardinality({p \in SeedReqs : seedResp[p] # None /\ Val(seedResp[p]).status = "seeded"}) <= 1
    /\ \A n \in 1..Len(Samples) :
           Cardinality({i \in 1..Len(coll) : FieldsOf(coll[i]) = Samples[n]}) <= 1

(* C3: after a successful create(P), a list request with no filters and the
   default limit returns a record whose fields equal P, apart from the id. *)
C3_CreateThenListIncludes ==
    ListWith({}) =>
        \A i \in 1..Len(created) :
            \E j \in 1..Len(resp.body) :
                \A k \in CaseStudyFields :
                    FieldOrNull(resp.body[j], k) = created[i].payload[k]

(* C4: the list and featured endpoints return at most  limit  records; a limit
   outside [1,100] (list) or [1,12] (featured) is rejected before any store
   query; an omitted limit behaves as 24 (list) or 6 (featured). *)
C4_LimitBounds ==
    /\ resp.op = "list" =>
           LET l == resp.req.limit
           IN  /\ (l # None /\ (Val(l) < 1 \/ Val(l) > MaxListLimit)) =>
                      resp.status = 422 /\ ~resp.queried
               /\ (l # None /\ Val(l) >= 1 /\ Val(l) <= MaxListLimit) =>
                      resp.queried /\ Len(resp.body) <= Val(l)
               /\ l = None =>
                      /\ resp.queried
                      /\ Len(resp.body) <= DefaultListLimit
                      /\ resp.body = ListBody(resp.req.q, resp.req.industry, resp.req.scope,
                                              resp.req.campaign_type, Some(DefaultListLimit))
    /\ resp.op = "featured" =>
           LET l == resp.req.limit
           IN  /\ (l # None /\ (Val(l) < 1 \/ Val(l) > MaxFeaturedLimit)) =>
                      resp.status = 422 /\ ~resp.queried
               /\ (l # None /\ Val(l) >= 1 /\ Val(l) <= MaxFeaturedLimit) =>
                      resp.queried /\ Len(resp.body) <= Val(l)
               /\ l = None =>
                      /\ resp.queried
                      /\ Len(resp.body) <= DefaultFeaturedLimit
                      /\ resp.body = featured_case_studies(coll, Some(DefaultFeaturedLimit)).body

C4_Witness ==
    /\ resp.op = "list"
    /\ resp.req.limit = None
    /\ Len(coll) > DefaultListLimit
    /\ Len(resp.body) = DefaultListLimit

\* a supplied, non-empty constraint of the request holds of the stored document
ConstraintHolds(doc, k, v) ==
    CASE k = "industry" -> doc.industry = v
      [] k = "campaign_type" -> doc.campaign_type = v
      [] k = "scope" -> "scope" \in DOMAIN doc /\ \E i \in 1..Len(doc.scope) : doc.scope[i] = v
      [] k = "q" ->
            \/ RegexSearch(v, doc.brand, "i")
            \/ RegexSearch(v, doc.headline, "i")
            \/ RegexSearch(v, doc.highlight, "i")
            \/ "tags" \in DOMAIN doc /\ \E i \in 1..Len(doc.tags) : RegexSearch(v, doc.tags[i], "i")

IsEmptyValue(k, v) == IF k = "q" THEN v = <<>> ELSE v = ""

(* C5, as stated: industry=X&scope=Y returns exactly the intersection of the
   result set of industry=X alone and the result set of scope=Y alone. *)
C5_IntersectionAlways ==
    ListWith({"industry", "scope"}) =>
        Ids(resp.body) =
            Ids(ListBody(None, resp.req.industry, None, None, None)) \cap
            Ids(ListBody(None, None, resp.req.scope, None, None))

(* C5, amended: industry=X&scope=Y returns exactly the intersection of the two
   single-filter result sets whenever neither of them is cut by the limit
   (each holds fewer records than the limit); and every returned document
   satisfies every supplied non-empty constraint among q (a case-insensitive
   pattern), industry, scope and campaign_type. *)
C5_IntersectionWhenNotCut ==
    /\ ListWith({"industry", "scope"}) =>
           LET byIndustry == ListBody(None, resp.req.industry, None, None, None)
               byScope == ListBody(None, None, resp.req.scope, None, None)
           IN  (Len(byIndustry) < DefaultListLimit /\ Len(byScope) < DefaultListLimit) =>
                   Ids(resp.body) = Ids(byIndustry) \cap Ids(byScope)
    /\ (resp.op = "list" /\ resp.status = 200) =>
           \A j \in 1..Len(resp.body) :
               \E i \in 1..Len(coll) :
                   /\ IdOf(coll[i]) = resp.body[j].id
                   /\ \A k \in {"q", "industry", "scope", "campaign_type"} :
                          (resp.req[k] # None /\ ~IsEmptyValue(k, Val(resp.req[k]))) =>
                              ConstraintHolds(coll[i], k, Val(resp.req[k]))

C5_Witness ==
    /\ ListWith({"industry", "scope"})
    /\ LET byIndustry == Ids(ListBody(None, resp.req.industry, None, None, None))
           byScope == Ids(ListBody(None, None, resp.req.scope, None, None))
       IN  /\ Ids(resp.body) # {}
           /\ Ids(resp.body) # byIndustry
           /\ Ids(resp.body) # byScope
           /\ Cardinality(byIndustry) < DefaultListLimit
           /\ Cardinality(byScope) < DefaultListLimit

\* z is a case-insensitive substring of brand, headline, highlight or a tag
QSubstringOf(z, doc) ==
    \/ IsSubstrI(z, doc.brand)
    \/ IsSubstrI(z, doc.headline)
    \/ IsSubstrI(z, doc.highlight)
    \/ "tags" \in DOMAIN doc /\ \E i \in 1..Len(doc.tags) : IsSubstrI(z, doc.tags[i])

(* C6: with only q=Z supplied, a stored document appears in the result iff Z
   is a case-insensitive substring of its brand, headline, highlight or of
   one of its tags. *)
C6_QIsSubstringSearch ==
    ListWith({"q"}) =>
        \A i \in 1..Len(coll) :
            (IdOf(coll[i]) \in Ids(resp.body)) <=> QSubstringOf(Val(resp.req.q), coll[i])

(* C7, as stated: with only industry=X supplied, for every X (the empty string
   included), a stored document appears in the result iff its industry equals
   X; with no parameters every document appears. *)
C7_IndustryIffAlways ==
    /\ ListWith({"industry"}) =>
           \A i \in 1..Len(coll) :
               (IdOf(coll[i]) \in Ids(resp.body)) <=> (coll[i].industry = Val(resp.req.industry))
    /\ ListWith({}) =>
           \A i \in 1..Len(coll) : IdOf(coll[i]) \in Ids(resp.body)

\* the stored documents whose industry is x
WithIndustry(x) == {i \in 1..Len(coll) : coll[i].industry = x}

(* C7, amended: with only industry=X supplied and X not empty, every returned
   document has industry equal to X exactly and case-sensitively, and the
   result holds min(limit, n) of the n such documents, so a document appears
   iff its industry equals X whenever at most  limit  documents match; with X
   empty or no parameter supplied the filter is empty and the result holds
   min(limit, n) of all n documents. *)
C7_IndustryIffUpToLimit ==
    /\ (ListWith({"industry"}) /\ Val(resp.req.industry) # "") =>
           /\ Ids(resp.body) \subseteq {IdOf(coll[i]) : i \in WithIndustry(Val(resp.req.industry))}
           /\ Cardinality(Ids(resp.body)) =
                  Min(DefaultListLimit, Cardinality(WithIndustry(Val(resp.req.industry))))
    /\ (ListWith({}) \/ (ListWith({"industry"}) /\ Val(resp.req.industry) = "")) =>
           /\ Ids(resp.body) \subseteq {IdOf(coll[i]) : i \in 1..Len(coll)}
           /\ Cardinality(Ids(resp.body)) = Min(DefaultListLimit, Len(coll))

C7_Witness ==
    /\ ListWith({"industry"})
    /\ Val(resp.req.industry) = "Beauty"
    /\ Ids(resp.body) # {}
    /\ \E i \in 1..Len(coll) : coll[i].industry = "beauty" /\ IdOf(coll[i]) \notin Ids(resp.body)

(* C8: for every combination of outcomes of the diagnostic checks the endpoint
   returns the report, never an error, and each check's outcome is reported
   whatever the outcome of the others: the two environment values always, the
   handle always, the list-of-collections call whenever there is a handle to
   call it on. *)
C8_DiagnosticAlwaysReports ==
    resp.op = "test" =>
        /\ resp.status = 200
        /\ DOMAIN resp.object = {"backend", "database", "database_url", "database_name",
                               "connection_status", "collections"}
        /\ resp.object.backend = "[ok] Running"
        /\ resp.object.database_url =
               Some(IF resp.req.url \in {None, Some("")} THEN "[x] Not Set" ELSE "[ok] Set")
        /\ resp.object.database_name =
               Some(IF resp.req.name \in {None, Some("")} THEN "[x] Not Set" ELSE "[ok] Set")
        /\ resp.req.db = None =>
               /\ resp.object.connection_status = "Not Connected"
               /\ resp.object.database.text = "[!] Available but not initialized"
               /\ resp.object.collections = <<>>
        /\ resp.req.db # None =>
               LET outcome == Val(resp.req.db).list
               IN  /\ resp.object.connection_status = "Connected"
                   /\ outcome.raises =>
                          /\ resp.object.database.text = "[!] Connected but Error: "
                          /\ IsPrefix(resp.object.database.detail, outcome.error)
                          /\ Len(resp.object.database.detail) = Min(Len(outcome.error), ErrorDetailLen)
                          /\ resp.object.collections = <<>>
                   /\ ~outcome.raises =>
                          /\ resp.object.database.text = "[ok] Connected & Working"
                          /\ IsPrefix(resp.object.collections, outcome.names)
                          /\ Len(resp.object.collections) = Min(Len(outcome.names), CollectionsShown)

C8_Witness ==
    /\ resp.op = "test"
    /\ resp.req.db # None
    /\ Val(resp.req.db).list.raises
    /\ resp.req.url = None
    /\ resp.req.name = Some("set")
    /\ resp.object.database_url = Some("[x] Not Set")
    /\ resp.object.database_name = Some("[ok] Set")

(* C9: the response shaper gives one output record per stored document, with
   the store identifier as the string field id and every CaseStudy field
   (video_url among them) at its stored value, an absent optional field at
   its default. *)
C9_ShaperPassesEveryField ==
    (resp.op \in {"list", "featured"} /\ resp.status = 200) =>
        \A j \in 1..Len(resp.body) :
            \E i \in 1..Len(coll) :
                /\ IdOf(coll[i]) = resp.body[j].id
                /\ \A k \in CaseStudyFields :
                       FieldOrNull(resp.body[j], k) =
                           IF k \in DOMAIN coll[i] THEN coll[i][k] ELSE CaseStudyDefault(k)

(* C10: the collection is append-only: a step never removes or changes a
   stored document, only create and seed add one, and the read endpoints and
   a seed request that finds a document leave the collection unchanged. *)
C10_AppendOnly ==
    [][/\ IsPrefix(coll, coll')
       /\ coll' # coll =>
              /\ Len(coll') = Len(coll) + 1
              /\ \/ resp'.op = "create"
                 \/ \E p \in SeedReqs : seedInserted'[p] = seedInserted[p] + 1
       /\ resp'.op \in ReadOps => coll' = coll
       /\ \A p \in SeedReqs :
              (seedResp[p] = None /\ seedResp'[p] = Some(SeedExists)) => coll' = coll
      ]_vars

C10_Witness ==
    /\ Len(created) > 0
    /\ \E p \in SeedReqs : seedResp[p] = Some(SeedExists)
    /\ resp.op = "list"
    /\ Len(resp.body) = Len(coll)

=============================================================================
